---------------------------- MODULE Spec2Model ----------------------------
(***************************************************************************)
(* The mixin aggregator web/server/vue-cli/src/mixins/index.js: four       *)
(* default imports re-exported as one named export group.  The model       *)
(* follows the module through its load (resolution of the four import      *)
(* declarations in source order, evaluation of the requested modules,      *)
(* binding of the export group) and through the imports and reads of its   *)
(* consumers.                                                              *)
(***************************************************************************)
EXTENDS Integers, Sequences, FiniteSets, TLC

(* ------------------------------ bounds --------------------------------- *)
NumConsumers == 2
MaxRefs == 5
MaxEval == 2

(* ------------------------- the source text ----------------------------- *)
\* A slip in index.js:1-4: the local names written in the order of the export
\* group while the specifiers keep the import order.
ImportDeclarationsCrossWired ==
  << [local |-> "BugPathLengthColorMixin", from |-> "./detection-status.mixin"],
     [local |-> "DetectionStatusMixin",    from |-> "./bug-path-length-color.mixin"],
     [local |-> "SeverityMixin",           from |-> "./severity.mixin"],
     [local |-> "StrToColorMixin",         from |-> "./str-to-color.mixin"] >>

\* A slip in index.js:1-4: a copied line whose specifier was not changed.
ImportDeclarationsAliased ==
  << [local |-> "DetectionStatusMixin",    from |-> "./detection-status.mixin"],
     [local |-> "BugPathLengthColorMixin", from |-> "./bug-path-length-color.mixin"],
     [local |-> "SeverityMixin",           from |-> "./str-to-color.mixin"],
     [local |-> "StrToColorMixin",         from |-> "./str-to-color.mixin"] >>

\* index.js:1-4, in source order.
ImportDeclarations ==
  << [local |-> "DetectionStatusMixin",    from |-> "./detection-status.mixin"],
     [local |-> "BugPathLengthColorMixin", from |-> "./bug-path-length-color.mixin"],
     [local |-> "SeverityMixin",           from |-> "./severity.mixin"],
     [local |-> "StrToColorMixin",         from |-> "./str-to-color.mixin"] >>

\* A slip in index.js:6-11: one of the locals also exported as the default.
ExportListWithDefault ==
  << [exported |-> "BugPathLengthColorMixin", local |-> "BugPathLengthColorMixin"],
     [exported |-> "DetectionStatusMixin",    local |-> "DetectionStatusMixin"],
     [exported |-> "SeverityMixin",           local |-> "SeverityMixin"],
     [exported |-> "StrToColorMixin",         local |-> "StrToColorMixin"],
     [exported |-> "default",                 local |-> "SeverityMixin"] >>

\* index.js:6-11, in source order; the shorthand exports a local under its own name.
ExportList ==
  << [exported |-> "BugPathLengthColorMixin", local |-> "BugPathLengthColorMixin"],
     [exported |-> "DetectionStatusMixin",    local |-> "DetectionStatusMixin"],
     [exported |-> "SeverityMixin",           local |-> "SeverityMixin"],
     [exported |-> "StrToColorMixin",         local |-> "StrToColorMixin"] >>

\* The module specifiers of the mixin modules living next to index.js.
Specifiers ==
  { "./bug-path-length-color.mixin", "./detection-status.mixin",
    "./severity.mixin", "./str-to-color.mixin" }

\* Names a consumer may ask the aggregator for: the four mixins, the default
\* export and a name that index.js never mentions.
RequestNames ==
  { "BugPathLengthColorMixin", "DetectionStatusMixin", "SeverityMixin",
    "StrToColorMixin", "default", "UnknownMixin" }

Consumers == 1..NumConsumers
Refs == 1..MaxRefs
None == 0

VARIABLES
  present,        \* specifiers that resolve to a source file
  moduleMap,      \* per mixin module: "absent", "evaluated" or "failed"
  defaultExport,  \* per mixin module: the object its `export default` made
  heap,           \* per object reference: the module that created it, or "free"
  evalCount,      \* how many times each module body has run
  aggStatus,      \* the aggregator's load state
  aggIdx,         \* the import declaration the load is at
  exportTable,    \* the aggregator's exports: name -> reference
  pc,             \* per consumer: "idle", "importing", "loaded", "failed"
  want,           \* per consumer: the name it imports from the aggregator
  err,            \* per consumer: why its initialization failed
  seen            \* per consumer: the reference its last read gave

vars == << present, moduleMap, defaultExport, heap, evalCount, aggStatus,
           aggIdx, exportTable, pc, want, err, seen >>

mixinVars == << moduleMap, defaultExport, heap >>
consumerVars == << pc, want, err, seen >>

Aggregator == "./index"

Init ==
  /\ present \in SUBSET Specifiers
  /\ moduleMap = [s \in Specifiers |-> "absent"]
  /\ defaultExport = [s \in Specifiers |-> None]
  /\ heap = [r \in Refs |-> "free"]
  /\ evalCount = [m \in Specifiers \cup {Aggregator} |-> 0]
  /\ aggStatus = "unloaded"
  /\ aggIdx = 0
  /\ exportTable = [n \in RequestNames |-> None]
  /\ pc = [c \in Consumers |-> "idle"]
  /\ want = [c \in Consumers |-> "default"]
  /\ err = [c \in Consumers |-> "none"]
  /\ seen = [c \in Consumers |-> None]


(* --------------------------- pure helpers ------------------------------ *)
NumImports == Len(ImportDeclarations)

\* The modules index.js requests, in request order (index.js:1-4).
RequestedModules == [i \in 1..NumImports |-> ImportDeclarations[i].from]

\* The module a local import binding of index.js is bound to (index.js:1-4).
FromOf(local) ==
  ImportDeclarations[CHOOSE i \in 1..NumImports :
                       ImportDeclarations[i].local = local].from

\* The value of a local import binding: a live view of the default export of
\* the module it was imported from (index.js:1-4).
LocalBinding(local) == defaultExport[FromOf(local)]

\* The names index.js exports (index.js:6-11).
ExportNames == { ExportList[i].exported : i \in 1..Len(ExportList) }

\* The local an export name stands for (index.js:6-11).
LocalOf(name) ==
  ExportList[CHOOSE i \in 1..Len(ExportList) :
               ExportList[i].exported = name].local

\* A resolution that hands out the first export for a name it does not know.
ResolveExportFallback(name) ==
  IF name \in ExportNames THEN [found |-> TRUE, value |-> exportTable[name]]
  ELSE [found |-> TRUE, value |-> exportTable[ExportList[1].exported]]

\* Resolution of a name against the export group: the name's entry of the
\* export table, or no binding for a name the group does not list.
ResolveExport(name) ==
  IF name \in ExportNames THEN [found |-> TRUE, value |-> exportTable[name]]
  ELSE [found |-> FALSE, value |-> None]

\* The lowest free object reference.
FreeRefs == { r \in Refs : heap[r] = "free" }
NextFree == CHOOSE r \in FreeRefs : \A q \in FreeRefs : r <= q

(* ------------------------ the mixin modules ---------------------------- *)
\* Running the body of mixin module s: its `export default { ... }` creates a
\* fresh object and binds it as the module's default export.
EvaluateModule(s) ==
  /\ FreeRefs # {}
  /\ evalCount[s] < MaxEval
  /\ moduleMap' = [moduleMap EXCEPT ![s] = "evaluated"]
  /\ defaultExport' = [defaultExport EXCEPT ![s] = NextFree]
  /\ heap' = [heap EXCEPT ![NextFree] = s]
  /\ evalCount' = [evalCount EXCEPT ![s] = @ + 1]

\* Some module of the application imports mixin module s directly.
DirectImport(s) ==
  /\ moduleMap[s] = "absent"
  /\ IF s \in present
       THEN EvaluateModule(s)
       ELSE /\ moduleMap' = [moduleMap EXCEPT ![s] = "failed"]
            /\ UNCHANGED << defaultExport, heap, evalCount >>
  /\ UNCHANGED << present, aggStatus, aggIdx, exportTable, consumerVars >>

(* ------------------------- the aggregator ------------------------------ *)
\* A loader without a module map: every import loads index.js afresh.
BeginLoadOnEveryImport ==
  /\ aggStatus \in {"unloaded", "loaded"}
  /\ evalCount[Aggregator] < MaxEval
  /\ \E c \in Consumers : pc[c] = "importing"
  /\ aggStatus' = "resolving"
  /\ aggIdx' = 1
  /\ exportTable' = [n \in RequestNames |-> None]
  /\ UNCHANGED << present, mixinVars, evalCount, consumerVars >>

\* The first import of index.js starts its load, with every binding of the new
\* module environment uninitialized; the module is loaded once.
BeginLoad ==
  /\ aggStatus = "unloaded"
  /\ \E c \in Consumers : pc[c] = "importing"
  /\ aggStatus' = "resolving"
  /\ aggIdx' = 1
  /\ exportTable' = [n \in RequestNames |-> None]
  /\ UNCHANGED << present, mixinVars, evalCount, consumerVars >>

\* A resolution that passes over a specifier that resolves to no source file.
ResolveImportSkipMissing ==
  /\ aggStatus = "resolving"
  /\ IF aggIdx < NumImports
       THEN /\ aggIdx' = aggIdx + 1
            /\ aggStatus' = aggStatus
       ELSE /\ aggIdx' = 1
            /\ aggStatus' = "evaluating"
  /\ UNCHANGED << present, mixinVars, evalCount, exportTable, consumerVars >>

\* A resolution with a fallback: a failed load resumes after the missing module.
ResolveImportRetry ==
  /\ \/ /\ aggStatus = "resolving"
        /\ IF RequestedModules[aggIdx] \notin present
             THEN /\ aggStatus' = "failed"
                  /\ aggIdx' = aggIdx
             ELSE IF aggIdx < NumImports
               THEN /\ aggIdx' = aggIdx + 1
                    /\ aggStatus' = aggStatus
               ELSE /\ aggIdx' = 1
                    /\ aggStatus' = "evaluating"
     \/ /\ aggStatus = "failed"
        /\ aggStatus' = IF aggIdx < NumImports THEN "resolving" ELSE "evaluating"
        /\ aggIdx' = IF aggIdx < NumImports THEN aggIdx + 1 ELSE 1
  /\ UNCHANGED << present, mixinVars, evalCount, exportTable, consumerVars >>

\* Resolution of the import declaration at aggIdx: a specifier that resolves
\* to no source file fails the load of index.js.
ResolveImport ==
  /\ aggStatus = "resolving"
  /\ IF RequestedModules[aggIdx] \notin present
       THEN /\ aggStatus' = "failed"
            /\ aggIdx' = aggIdx
       ELSE IF aggIdx < NumImports
         THEN /\ aggIdx' = aggIdx + 1
              /\ aggStatus' = aggStatus
         ELSE /\ aggIdx' = 1
              /\ aggStatus' = "evaluating"
  /\ UNCHANGED << present, mixinVars, evalCount, exportTable, consumerVars >>

\* An evaluation that runs the requested module whether or not it already ran.
EvaluateDependencyUncached ==
  /\ aggStatus = "evaluating"
  /\ aggIdx <= NumImports
  /\ EvaluateModule(RequestedModules[aggIdx])
  /\ aggIdx' = aggIdx + 1
  /\ UNCHANGED << present, aggStatus, exportTable, consumerVars >>

\* Evaluation of the module requested by the import declaration at aggIdx,
\* unless the module map already holds it.
EvaluateDependency ==
  /\ aggStatus = "evaluating"
  /\ aggIdx <= NumImports
  /\ IF moduleMap[RequestedModules[aggIdx]] = "absent"
       THEN EvaluateModule(RequestedModules[aggIdx])
       ELSE UNCHANGED << mixinVars, evalCount >>
  /\ aggIdx' = aggIdx + 1
  /\ UNCHANGED << present, aggStatus, exportTable, consumerVars >>

\* The value the export group gives a name: the local import binding the name
\* stands for.
ExportedValue(name) ==
  IF name \in ExportNames THEN LocalBinding(LocalOf(name)) ELSE None

\* A body that exports a copy of its first member instead of the member itself.
EvaluateBodyCloning ==
  /\ aggStatus = "evaluating"
  /\ aggIdx = NumImports + 1
  /\ FreeRefs # {}
  /\ heap' = [heap EXCEPT ![NextFree] = FromOf(ExportList[1].local)]
  /\ exportTable' = [n \in RequestNames |->
                       IF n = ExportList[1].exported THEN NextFree
                       ELSE ExportedValue(n)]
  /\ evalCount' = [evalCount EXCEPT ![Aggregator] = @ + 1]
  /\ aggStatus' = "loaded"
  /\ UNCHANGED << present, moduleMap, defaultExport, aggIdx, consumerVars >>

\* The body of index.js: the export group binds every exported name at once.
EvaluateBody ==
  /\ aggStatus = "evaluating"
  /\ aggIdx = NumImports + 1
  /\ exportTable' = [n \in RequestNames |-> ExportedValue(n)]
  /\ evalCount' = [evalCount EXCEPT ![Aggregator] = @ + 1]
  /\ aggStatus' = "loaded"
  /\ UNCHANGED << present, mixinVars, aggIdx, consumerVars >>


(* -------------------------- the consumers ------------------------------ *)
aggVars == << present, mixinVars, evalCount, aggStatus, aggIdx, exportTable >>

\* Consumer c states `import { n } from '@/mixins'`.
Import(c, n) ==
  /\ pc[c] = "idle"
  /\ pc' = [pc EXCEPT ![c] = "importing"]
  /\ want' = [want EXCEPT ![c] = n]
  /\ UNCHANGED << aggVars, err, seen >>

\* Consumer c links against the aggregator once the aggregator's load has
\* ended: a failed aggregator, or a name the export group does not list,
\* fails the consumer's own initialization.
ConsumerLink(c) ==
  /\ pc[c] = "importing"
  /\ aggStatus \in {"loaded", "failed"}
  /\ IF aggStatus = "failed"
       THEN /\ pc' = [pc EXCEPT ![c] = "failed"]
            /\ err' = [err EXCEPT ![c] = "module resolution"]
       ELSE IF ~ResolveExport(want[c]).found
         THEN /\ pc' = [pc EXCEPT ![c] = "failed"]
              /\ err' = [err EXCEPT ![c] = "undefined symbol"]
         ELSE /\ pc' = [pc EXCEPT ![c] = "loaded"]
              /\ err' = err
  /\ UNCHANGED << aggVars, want, seen >>

\* Consumer c reads the name it imported.
Read(c) ==
  /\ pc[c] = "loaded"
  /\ seen' = [seen EXCEPT ![c] = ResolveExport(want[c]).value]
  /\ UNCHANGED << aggVars, pc, want, err >>

(* ------------------------- the specification --------------------------- *)
Next ==
  \/ \E s \in Specifiers : DirectImport(s)
  \/ BeginLoad
  \/ ResolveImport
  \/ EvaluateDependency
  \/ EvaluateBody
  \/ \E c \in Consumers, n \in RequestNames : Import(c, n)
  \/ \E c \in Consumers : ConsumerLink(c)
  \/ \E c \in Consumers : Read(c)

Spec == Init /\ [][Next]_vars

TypeOK ==
  /\ present \subseteq Specifiers
  /\ moduleMap \in [Specifiers -> {"absent", "evaluated", "failed"}]
  /\ defaultExport \in [Specifiers -> Refs \cup {None}]
  /\ heap \in [Refs -> Specifiers \cup {"free"}]
  /\ aggStatus \in {"unloaded", "resolving", "evaluating", "loaded", "failed"}
  /\ aggIdx \in 0..(NumImports + 1)
  /\ exportTable \in [RequestNames -> Refs \cup {None}]
  /\ pc \in [Consumers -> {"idle", "importing", "loaded", "failed"}]
  /\ want \in [Consumers -> RequestNames]
  /\ seen \in [Consumers -> Refs \cup {None}]


(* ------------------------------ claims --------------------------------- *)
\* The four names and, for each, the module the contract pairs it with.
FourNames ==
  { "BugPathLengthColorMixin", "DetectionStatusMixin", "SeverityMixin",
    "StrToColorMixin" }

MatchingModule ==
  [ BugPathLengthColorMixin |-> "./bug-path-length-color.mixin",
    DetectionStatusMixin    |-> "./detection-status.mixin",
    SeverityMixin           |-> "./severity.mixin",
    StrToColorMixin         |-> "./str-to-color.mixin" ]

\* The module whose evaluation created the object r.
Origin(r) == IF r = None THEN "none" ELSE heap[r]

BoundNames == { n \in RequestNames : exportTable[n] # None }
Allocated == { r \in Refs : heap[r] # "free" }

\* C1: for each of the four names, the value the aggregator gives under that
\* name, in its export table and to every consumer that reads it, is the very
\* object that the matching module's default export is: not a copy, and not
\* another module's object.
C1_IdentityPreserved ==
  /\ aggStatus = "loaded" =>
       \A n \in FourNames :
         /\ exportTable[n] # None
         /\ exportTable[n] = defaultExport[MatchingModule[n]]
         /\ Origin(exportTable[n]) = MatchingModule[n]
  /\ \A c \in Consumers :
       pc[c] = "loaded" /\ seen[c] # None =>
         /\ want[c] \in FourNames
         /\ seen[c] = defaultExport[MatchingModule[want[c]]]

\* C1 witness: a consumer read SeverityMixin through the aggregator and holds
\* the object that a direct import of ./severity.mixin, made before any other
\* module ran, had created.
C1_Witness ==
  \E c \in Consumers :
    /\ pc[c] = "loaded"
    /\ want[c] = "SeverityMixin"
    /\ seen[c] = 1
    /\ defaultExport["./severity.mixin"] = 1

\* C2: whenever the aggregator is loaded, the names it exports are exactly the
\* four: each of them resolves and is bound, and neither `default` nor any
\* other name resolves or is bound.
C2_ExactlyFourExports ==
  aggStatus = "loaded" =>
    /\ BoundNames = FourNames
    /\ { n \in RequestNames : ResolveExport(n).found } = FourNames
    /\ ~ResolveExport("default").found

\* C2 witness: the aggregator is loaded and a consumer that asked for the
\* default export has been turned down.
C2_Witness ==
  /\ aggStatus = "loaded"
  /\ \E c \in Consumers : want[c] = "default" /\ pc[c] = "failed"

\* C3: when one of the four mixin modules cannot be resolved, the aggregator
\* never reaches the loaded state, its load ends failed, and it binds none of
\* the four names; in no state are only some of the four names bound.
C3_NoPartialExports ==
  /\ BoundNames \cap FourNames \in { {}, FourNames }
  /\ present # Specifiers =>
       /\ aggStatus \in {"unloaded", "resolving", "failed"}
       /\ BoundNames = {}
  /\ aggStatus = "failed" => present # Specifiers /\ BoundNames = {}

\* C3 witness: exactly one module is missing, the other three have been
\* resolved, and the load has failed on the missing one.
C3_Witness ==
  /\ Cardinality(present) = 3
  /\ aggStatus = "failed"
  /\ aggIdx = NumImports
  /\ \E c \in Consumers : pc[c] = "failed" /\ err[c] = "module resolution"

\* C4: however many consumers import the aggregator, and in whatever order,
\* every read of a name gives the same reference; each module body, the
\* aggregator's included, runs at most once; and a reference once read stays
\* the reference read.
C4_LoadOnce ==
  /\ [](/\ \A m \in Specifiers \cup {Aggregator} : evalCount[m] <= 1
        /\ \A c, d \in Consumers :
             seen[c] # None /\ seen[d] # None /\ want[c] = want[d]
               => seen[c] = seen[d])
  /\ [][\A c \in Consumers : seen[c] # None => seen'[c] = seen[c]]_vars

\* C4 witness: two consumers have read StrToColorMixin, and both hold the
\* object of a module that a direct import had already run before the
\* aggregator requested it.
C4_Witness ==
  /\ \A c \in Consumers : want[c] = "StrToColorMixin" /\ seen[c] = 1
  /\ evalCount["./str-to-color.mixin"] = 1
  /\ evalCount[Aggregator] = 1

\* C5: a consumer that imports a name other than the four never reaches its
\* loaded state and never holds a reference; once the aggregator is loaded its
\* failure is the undefined-symbol failure.
C5_UnknownNameFails ==
  \A c \in Consumers :
    pc[c] # "idle" /\ want[c] \notin FourNames =>
      /\ pc[c] # "loaded"
      /\ seen[c] = None
      /\ pc[c] = "failed" /\ aggStatus = "loaded" => err[c] = "undefined symbol"

\* C5 witness: with the aggregator loaded, a consumer that asked for
\* UnknownMixin has failed with the undefined-symbol failure.
C5_Witness ==
  /\ aggStatus = "loaded"
  /\ \E c \in Consumers :
       want[c] = "UnknownMixin" /\ pc[c] = "failed" /\ err[c] = "undefined symbol"

\* C6: a consumer is loaded only while the aggregator is loaded; a consumer
\* that waits on a failed aggregator can only fail; and a failed aggregator
\* stays failed.
C6_FailureIsFatal ==
  /\ [](\A c \in Consumers : pc[c] = "loaded" => aggStatus = "loaded")
  /\ [][aggStatus = "failed" =>
          /\ aggStatus' = "failed"
          /\ \A c \in Consumers :
               pc[c] = "importing" /\ pc'[c] # pc[c] =>
                 pc'[c] = "failed" /\ err'[c] = "module resolution"]_vars

\* C6 witness: the aggregator has failed and every consumer, whichever name it
\* asked for, has failed with it.
C6_Witness ==
  /\ aggStatus = "failed"
  /\ \A c \in Consumers : pc[c] = "failed" /\ err[c] = "module resolution"
  /\ \E c \in Consumers : want[c] \in FourNames

\* C7: from the loaded state on, every step, reads included, leaves the
\* aggregator loaded and its export table as it is.
C7_ExportTableImmutable ==
  [][aggStatus = "loaded" =>
       aggStatus' = "loaded" /\ exportTable' = exportTable]_vars

\* C7 witness: the aggregator is loaded, one consumer has read a name and
\* another is importing.
C7_Witness ==
  /\ aggStatus = "loaded"
  /\ \E c, d \in Consumers :
       /\ pc[c] = "loaded" /\ seen[c] # None
       /\ pc[d] = "importing"

\* C8: a step of the aggregator's load creates at most one object, that of a
\* requested module that had not run; it leaves every existing object, every
\* default export already bound, every module already in the module map, the
\* set of resolvable sources and every consumer as they are; and a loaded
\* aggregator has run the four modules and created four objects, one each.
C8_LoadFrame ==
  /\ [](aggStatus = "loaded" =>
          /\ Cardinality(Allocated) = 4
          /\ { heap[r] : r \in Allocated } = Specifiers
          /\ \A s \in Specifiers : evalCount[s] = 1)
  /\ [][aggStatus' # aggStatus \/ aggIdx' # aggIdx =>
          /\ consumerVars' = consumerVars
          /\ present' = present
          /\ \A r \in Allocated : heap'[r] = heap[r]
          /\ \A s \in Specifiers :
               /\ defaultExport[s] # None => defaultExport'[s] = defaultExport[s]
               /\ moduleMap[s] # "absent" => moduleMap'[s] = moduleMap[s]
               /\ evalCount'[s] # evalCount[s] =>
                    moduleMap[s] = "absent" /\ s = RequestedModules[aggIdx]
          /\ Cardinality({ r \in Refs : heap'[r] # heap[r] }) <= 1]_vars

\* C8 witness: the aggregator is loaded after a direct import had run one of
\* the modules and while a consumer was already importing a second name.
C8_Witness ==
  /\ aggStatus = "loaded"
  /\ defaultExport["./str-to-color.mixin"] = 1
  /\ Cardinality(Allocated) = 4
  /\ \E c \in Consumers : pc[c] = "loaded"

\* C9: in the loaded aggregator no two of the four names share an object or a
\* source module, and the four import declarations request four different
\* modules.
C9_OneToOne ==
  aggStatus = "loaded" =>
    /\ \A n, m \in FourNames :
         n # m => /\ exportTable[n] # exportTable[m]
                  /\ Origin(exportTable[n]) # Origin(exportTable[m])
    /\ Cardinality({ RequestedModules[i] : i \in 1..NumImports }) = 4
    /\ Cardinality({ Origin(exportTable[n]) : n \in FourNames }) = 4

\* C9 witness: two consumers have read two different names and hold two
\* different objects.
C9_Witness ==
  \E c, d \in Consumers :
    /\ want[c] # want[d]
    /\ seen[c] # None /\ seen[d] # None
    /\ seen[c] # seen[d]

=============================================================================
